---- MODULE Spec2Model ----
(***************************************************************************)
(* Model of the two notebooks OneDimGaussianGAN.ipynb and                  *)
(* NonSaturatingGAN.ipynb: the Gaussian density, the closed-form optimal   *)
(* discriminator, the value functions, and the parameter cells that the    *)
(* sliders and number boxes write and that trigger a redraw.               *)
(*                                                                         *)
(* The notebooks compute in IEEE-754 binary floating point (torch.double   *)
(* in OneDimGaussianGAN, torch.float32 in NonSaturatingGAN).  TLC has only *)
(* 32-bit integers, so a floating-point number is a sign, an arbitrary-    *)
(* precision natural mantissa (little-endian limbs in base 2^15) and a     *)
(* binary exponent; every tensor operation is the exact operation followed *)
(* by round-to-nearest-even into the tensor's dtype.                       *)
(***************************************************************************)
EXTENDS Integers, Sequences, FiniteSets, TLC

(***************************************************************************)
(* Arbitrary-precision naturals: <<>> is 0, otherwise the last limb # 0.   *)
(***************************************************************************)
LB == 15
B == 32768

Max(a, b) == IF a >= b THEN a ELSE b
Min(a, b) == IF a <= b THEN a ELSE b

NHead(a) == IF a = <<>> THEN 0 ELSE Head(a)
NTail(a) == IF a = <<>> THEN <<>> ELSE Tail(a)
Zeros(q) == [i \in 1..q |-> 0]

RECURSIVE NNorm(_)
NNorm(a) ==
    IF a = <<>> THEN <<>>
    ELSE IF a[Len(a)] = 0 THEN NNorm(SubSeq(a, 1, Len(a) - 1)) ELSE a

RECURSIVE NFromInt(_)
NFromInt(n) == IF n = 0 THEN <<>> ELSE <<n % B>> \o NFromInt(n \div B)

RECURSIVE NToInt(_)
NToInt(a) == IF a = <<>> THEN 0 ELSE Head(a) + B * NToInt(Tail(a))

RECURSIVE NAddC(_, _, _)
NAddC(a, b, c) ==
    IF a = <<>> /\ b = <<>> THEN (IF c = 0 THEN <<>> ELSE <<c>>)
    ELSE LET x == NHead(a) + NHead(b) + c
         IN  <<x % B>> \o NAddC(NTail(a), NTail(b), x \div B)
NAdd(a, b) == NAddC(a, b, 0)

RECURSIVE NSubB(_, _, _)
NSubB(a, b, c) ==
    IF a = <<>> THEN <<>>
    ELSE LET x == Head(a) - NHead(b) - c
         IN  IF x < 0 THEN <<x + B>> \o NSubB(Tail(a), NTail(b), 1)
                      ELSE <<x>> \o NSubB(Tail(a), NTail(b), 0)
\* a - b for a >= b
NSub(a, b) == NNorm(NSubB(a, b, 0))

RECURSIVE NCmpAt(_, _, _)
NCmpAt(a, b, i) ==
    IF i = 0 THEN 0
    ELSE IF a[i] > b[i] THEN 1
    ELSE IF a[i] < b[i] THEN -1
    ELSE NCmpAt(a, b, i - 1)
NCmp(a, b) ==
    IF Len(a) > Len(b) THEN 1
    ELSE IF Len(a) < Len(b) THEN -1
    ELSE NCmpAt(a, b, Len(a))

RECURSIVE NMulSmallC(_, _, _)
NMulSmallC(a, d, c) ==
    IF a = <<>> THEN (IF c = 0 THEN <<>> ELSE <<c>>)
    ELSE LET x == Head(a) * d + c
         IN  <<x % B>> \o NMulSmallC(Tail(a), d, x \div B)
\* a * d for 0 <= d < B
NMulSmall(a, d) == IF d = 0 THEN <<>> ELSE NMulSmallC(a, d, 0)

RECURSIVE NMul(_, _)
NMul(a, b) ==
    IF a = <<>> \/ b = <<>> THEN <<>>
    ELSE NAdd(NMulSmall(b, Head(a)),
              IF Tail(a) = <<>> THEN <<>> ELSE <<0>> \o NMul(Tail(a), b))

RECURSIVE NDivSmallR(_, _, _, _)
NDivSmallR(a, d, i, r) ==
    IF i = 0 THEN <<>>
    ELSE LET x == r * B + a[i]
         IN  NDivSmallR(a, d, i - 1, x % d) \o <<x \div d>>
\* floor(a / d) for 0 < d <= B
NDivSmall(a, d) == NNorm(NDivSmallR(a, d, Len(a), 0))

NShl(a, k) ==
    IF a = <<>> THEN <<>> ELSE Zeros(k \div LB) \o NMulSmall(a, 2 ^ (k % LB))
NShr(a, k) ==
    IF k \div LB >= Len(a) THEN <<>>
    ELSE NDivSmall(SubSeq(a, (k \div LB) + 1, Len(a)), 2 ^ (k % LB))

\* bit j (from 0) of a
NBit(a, j) ==
    IF j < 0 \/ j \div LB >= Len(a) THEN 0
    ELSE (a[(j \div LB) + 1] \div (2 ^ (j % LB))) % 2
\* some of the k low bits of a is set
NLowNonzero(a, k) ==
    /\ k > 0
    /\ \/ \E i \in 1..Min(k \div LB, Len(a)) : a[i] # 0
       \/ k \div LB < Len(a) /\ a[(k \div LB) + 1] % (2 ^ (k % LB)) # 0

RECURSIVE BitLenSmall(_)
BitLenSmall(x) == IF x = 0 THEN 0 ELSE 1 + BitLenSmall(x \div 2)
NBitLen(a) == IF a = <<>> THEN 0 ELSE LB * (Len(a) - 1) + BitLenSmall(a[Len(a)])

RECURSIVE TzSmall(_)
TzSmall(x) == IF x % 2 = 1 THEN 0 ELSE 1 + TzSmall(x \div 2)
RECURSIVE NTz(_)
\* number of trailing zero bits of a # 0
NTz(a) == IF Head(a) = 0 THEN LB + NTz(Tail(a)) ELSE TzSmall(Head(a))

RECURSIVE QFix(_, _, _)
QFix(rem, b, q) == IF NCmp(NMulSmall(b, q), rem) > 0 THEN QFix(rem, b, q - 1) ELSE q
\* the quotient digit floor(rem / b) for rem < b * B and top limb of b >= B / 2
QDigit(rem, b) ==
    LET n   == Len(b)
        top == IF Len(rem) > n THEN rem[n + 1] * B + rem[n] ELSE rem[n]
    IN  IF Len(rem) < n THEN 0 ELSE QFix(rem, b, Min(top \div b[n], B - 1))

NDivDigit(b, q, rem, d) == [q |-> <<d>> \o q, r |-> NSub(rem, NMulSmall(b, d))]
NDivStep(b, q, rem) == NDivDigit(b, q, rem, QDigit(rem, b))
\* the limb x brought down to the remainder of up, and divided by b
NDivLimb(b, x, up) == NDivStep(b, up.q, NNorm(<<x>> \o up.r))
RECURSIVE NDivLoop(_, _, _)
\* long division of the limbs i..1 of a by b, given the limbs above i
\* already divided: returns the quotient limbs i..1 and the remainder
NDivLoop(a, b, i) ==
    IF i > Len(a) THEN [q |-> <<>>, r |-> <<>>]
    ELSE NDivLimb(b, a[i], NDivLoop(a, b, i + 1))
NDivUnshift(qr, s) == [q |-> NNorm(qr.q), r |-> NShr(qr.r, s)]
NDivShifted(a, b, s) == NDivUnshift(NDivLoop(NShl(a, s), NShl(b, s), 1), s)
\* quotient and remainder of a by b # 0: both are shifted by s so that
\* the top limb of b is at least B / 2
NDivMod(a, b) == NDivShifted(a, b, LB - BitLenSmall(b[Len(b)]))

RECURSIVE NPow(_, _)
NPow(a, n) == IF n = 0 THEN <<1>> ELSE NMul(a, NPow(a, n - 1))

RECURSIVE NSqrtLoop(_, _)
\* Newton's iteration from r >= sqrt(n), down to floor(sqrt(n))
NSqrtStep(n, r, r2) == IF NCmp(r2, r) >= 0 THEN r ELSE NSqrtLoop(n, r2)
NSqrtLoop(n, r) == NSqrtStep(n, r, NDivSmall(NAdd(r, NDivMod(n, r).q), 2))
\* floor(sqrt(n))
NSqrt(n) == IF n = <<>> THEN <<>> ELSE NSqrtLoop(n, NShl(<<1>>, (NBitLen(n) + 1) \div 2))

(***************************************************************************)
(* Floating-point values.  A finite value is (-1)^s * m * 2^e with m odd   *)
(* (or m = 0 and e = 0), so every value has one representation and a       *)
(* float32 value is the same record when it is promoted to double.         *)
(***************************************************************************)
NaN == [k |-> "nan", s |-> 0, m |-> <<>>, e |-> 0]
Inf(s) == [k |-> "inf", s |-> s, m |-> <<>>, e |-> 0]
Zero(s) == [k |-> "fin", s |-> s, m |-> <<>>, e |-> 0]

IsNaN(a) == a.k = "nan"
IsInf(a) == a.k = "inf"
IsFinite(a) == a.k = "fin"
IsZero(a) == a.k = "fin" /\ a.m = <<>>

\* the finite value (-1)^s * m * 2^e, exactly
Dy(s, m, e) ==
    IF m = <<>> THEN Zero(s)
    ELSE [k |-> "fin", s |-> s, m |-> NShr(m, NTz(m)), e |-> e + NTz(m)]

\* dtypes: p significand bits, emin the exponent of the smallest subnormal,
\* etop the exponent above the largest finite value
F64 == [p |-> 53, emin |-> -1074, etop |-> 1024]
F32 == [p |-> 24, emin |-> -149, etop |-> 128]

\* (-1)^s * m * 2^e rounded to nearest, ties to even, in dtype f
\* m1 is m without its k low bits: one more when they are above a half, or
\* are a half and m1 is odd
RoundUp(m, k, m1) ==
    IF NBit(m, k - 1) = 1 /\ (NLowNonzero(m, k - 1) \/ NBit(m1, 0) = 1)
    THEN NAdd(m1, <<1>>) ELSE m1
RoundFit(f, s, m, e) == IF e + NBitLen(m) > f.etop THEN Inf(s) ELSE Dy(s, m, e)
\* q is the exponent of the last place of the result
RoundAt(f, s, m, e, q) ==
    IF q <= e THEN RoundFit(f, s, m, e)
    ELSE RoundFit(f, s, RoundUp(m, q - e, NShr(m, q - e)), q)
Round(f, s, m, e) ==
    IF m = <<>> THEN Zero(s)
    ELSE RoundAt(f, s, m, e, Max(e + NBitLen(m) - f.p, f.emin))
RoundDy(f, r) == Round(f, r.s, r.m, r.e)

\* tensor.to(dtype)
Cast(f, a) == IF a.k = "fin" THEN Round(f, a.s, a.m, a.e) ELSE a

\* exact sum of two finite values a # 0 and b # 0, as [s, m, e] (m any)
DySub(sa, sb, ma, mb, e0, c) ==
    IF c = 0 THEN [s |-> 0, m |-> <<>>, e |-> 0]
    ELSE IF c > 0 THEN [s |-> sa, m |-> NSub(ma, mb), e |-> e0]
    ELSE [s |-> sb, m |-> NSub(mb, ma), e |-> e0]
DyAligned(sa, sb, ma, mb, e0) ==
    IF sa = sb THEN [s |-> sa, m |-> NAdd(ma, mb), e |-> e0]
    ELSE DySub(sa, sb, ma, mb, e0, NCmp(ma, mb))
DyAddAt(a, b, e0) == DyAligned(a.s, b.s, NShl(a.m, a.e - e0), NShl(b.m, b.e - e0), e0)
DyAdd(a, b) == DyAddAt(a, b, Min(a.e, b.e))

FNeg(a) == IF a.k = "nan" THEN a ELSE [a EXCEPT !.s = 1 - a.s]

\* exponent above the leading bit of a finite a # 0
Top(a) == a.e + NBitLen(a.m)

FAdd(f, a, b) ==
    IF a.k = "nan" \/ b.k = "nan" THEN NaN
    ELSE IF a.k = "inf" THEN (IF b.k = "inf" /\ b.s # a.s THEN NaN ELSE a)
    ELSE IF b.k = "inf" THEN b
    ELSE IF a.m = <<>> /\ b.m = <<>> THEN Zero(IF a.s = 1 /\ b.s = 1 THEN 1 ELSE 0)
    ELSE IF a.m = <<>> THEN Cast(f, b)
    ELSE IF b.m = <<>> THEN Cast(f, a)
    \* an operand below a quarter of the other's last place does not change
    \* the rounded sum
    ELSE IF Top(b) < Top(a) - f.p - 3 THEN Cast(f, a)
    ELSE IF Top(a) < Top(b) - f.p - 3 THEN Cast(f, b)
    ELSE RoundDy(f, DyAdd(a, b))

FSub(f, a, b) == FAdd(f, a, FNeg(b))

Xor(s, t) == IF s = t THEN 0 ELSE 1

FMul(f, a, b) ==
    IF a.k = "nan" \/ b.k = "nan" THEN NaN
    ELSE IF a.k = "inf" \/ b.k = "inf"
         THEN (IF IsZero(a) \/ IsZero(b) THEN NaN ELSE Inf(Xor(a.s, b.s)))
    ELSE Round(f, Xor(a.s, b.s), NMul(a.m, b.m), a.e + b.e)

\* the quotient to p + 2 bits and a sticky bit for the remainder
FSquare(f, a) == FMul(f, a, a)

FDivSticky(f, s, qr, e) ==
    Round(f, s, NAddC(qr.q, qr.q, IF qr.r = <<>> THEN 0 ELSE 1), e)
FDivAt(f, a, b, k) ==
    FDivSticky(f, Xor(a.s, b.s), NDivMod(NShl(a.m, k), b.m), a.e - b.e - k - 1)
FDiv(f, a, b) ==
    IF a.k = "nan" \/ b.k = "nan" THEN NaN
    ELSE IF a.k = "inf" THEN (IF b.k = "inf" THEN NaN ELSE Inf(Xor(a.s, b.s)))
    ELSE IF b.k = "inf" THEN Zero(Xor(a.s, b.s))
    ELSE IF b.m = <<>> THEN (IF a.m = <<>> THEN NaN ELSE Inf(Xor(a.s, b.s)))
    ELSE IF a.m = <<>> THEN Zero(Xor(a.s, b.s))
    ELSE FDivAt(f, a, b, Max(0, f.p + 2 + NBitLen(b.m) - NBitLen(a.m)))

\* the root r of n to p + 2 bits and a sticky bit when it is not exact
FSqrtSticky(f, n, r, e) == Round(f, 0, NAddC(r, r, IF NMul(r, r) = n THEN 0 ELSE 1), e)
FSqrtOf(f, n, e) == FSqrtSticky(f, n, NSqrt(n), e)
FSqrtAt(f, a, k) == FSqrtOf(f, NShl(a.m, k), ((a.e - k) \div 2) - 1)
\* the shift that makes the exponent even
FSqrtEven(a, k0) == IF (a.e - k0) % 2 = 0 THEN k0 ELSE k0 + 1
FSqrt(f, a) ==
    IF a.k = "nan" THEN NaN
    ELSE IF a.m = <<>> /\ a.k = "fin" THEN a
    ELSE IF a.s = 1 THEN NaN
    ELSE IF a.k = "inf" THEN a
    ELSE FSqrtAt(f, a, FSqrtEven(a, Max(0, 2 * (f.p + 2) - NBitLen(a.m))))

\* |a| compared with |b| for finite a # 0 and b # 0: -1, 0 or 1
MagCmp(a, b) ==
    IF Top(a) # Top(b) THEN (IF Top(a) > Top(b) THEN 1 ELSE -1)
    ELSE NCmp(NShl(a.m, a.e - Min(a.e, b.e)), NShl(b.m, b.e - Min(a.e, b.e)))

\* a < b, a = b as numbers (false when either is NaN)
FLt(a, b) ==
    IF a.k = "nan" \/ b.k = "nan" THEN FALSE
    ELSE IF a.k = "inf" THEN a.s = 1 /\ ~(b.k = "inf" /\ b.s = 1)
    ELSE IF b.k = "inf" THEN b.s = 0
    ELSE IF a.m = <<>> THEN b.m # <<>> /\ b.s = 0
    ELSE IF b.m = <<>> THEN a.s = 1
    ELSE IF a.s # b.s THEN a.s = 1
    ELSE IF a.s = 0 THEN MagCmp(a, b) < 0 ELSE MagCmp(a, b) > 0
FEq(a, b) ==
    /\ a.k # "nan" /\ b.k # "nan"
    /\ \/ a = b
       \/ IsZero(a) /\ IsZero(b)
FLe(a, b) == FLt(a, b) \/ FEq(a, b)

\* tensor.clamp(min): the larger of a and lo, NaN stays NaN
Clamp(a, lo) == IF a.k = "nan" THEN a ELSE IF FLt(a, lo) THEN lo ELSE a

\* an integer and a ratio of integers as values
FromInt(n) == IF n < 0 THEN Dy(1, NFromInt(-n), 0) ELSE Dy(0, NFromInt(n), 0)
FromRatio(f, n, d) == FDiv(f, FromInt(n), FromInt(d))

(***************************************************************************)
(* torch.exp and torch.log: computed in fixed point with FB fraction bits  *)
(* and then rounded into the dtype.                                        *)
(***************************************************************************)
FB == 75
ONE == NShl(<<1>>, FB)
\* floor(ln(2) * 2^FB)
LN2 == <<24143, 30618, 31289, 1533, 22713>>

FxMul(a, b) == NShr(NMul(a, b), FB)

RECURSIVE ExpHorner(_, _, _)
\* 1 + r/1 * (1 + r/2 * (... (1 + r/n * s)))
ExpHorner(r, n, s) ==
    IF n = 0 \/ s = <<>> THEN s
    ELSE ExpHorner(r, n - 1, NAdd(ONE, NDivSmall(FxMul(r, s), n)))
FxSquare(a) == FxMul(a, a)
\* exp(r) for 0 <= r < ln(2), as exp(r / 8) ^ 8
ExpFx(r) == FxSquare(FxSquare(FxSquare(ExpHorner(NShr(r, 3), 13, ONE))))

\* a = k * ln(2) + r with 0 <= r < ln(2), from the quotient and remainder qr
\* of |a| by ln(2)
FExpK(s, qr) ==
    IF s = 0 THEN NToInt(qr.q)
    ELSE IF qr.r = <<>> THEN -NToInt(qr.q)
    ELSE -(NToInt(qr.q) + 1)
FExpR(s, qr) == IF s = 0 \/ qr.r = <<>> THEN qr.r ELSE NSub(LN2, qr.r)
FExpReduced(f, s, qr) == Round(f, 0, ExpFx(FExpR(s, qr)), FExpK(s, qr) - FB)
\* exact to the last place unless the result is within 2^-FB of a rounding tie
FExp(f, a) ==
    IF a.k = "nan" THEN NaN
    ELSE IF a.k = "inf" THEN (IF a.s = 1 THEN Zero(0) ELSE a)
    ELSE IF a.m = <<>> THEN Dy(0, <<1>>, 0)
    ELSE IF Top(a) > 12 THEN (IF a.s = 1 THEN Zero(0) ELSE Inf(0))
    ELSE FExpReduced(f, a.s,
                     NDivMod(IF a.e + FB >= 0 THEN NShl(a.m, a.e + FB)
                                              ELSE NShr(a.m, -(a.e + FB)), LN2))

RECURSIVE LogHorner(_, _, _)
\* 1 + w/3 + w^2/5 + ... + w^n/(2n+1), from the last term down
LogHorner(w, n, s) ==
    IF n < 0 \/ Len(s) > Len(ONE) THEN s
    ELSE LogHorner(w, n - 1, NAdd(NDivSmall(ONE, 2 * n + 1), FxMul(w, s)))

\* k * ln(2)
FLogK(k) ==
    [s |-> IF k < 0 THEN 1 ELSE 0, m |-> NMulSmall(LN2, IF k < 0 THEN -k ELSE k), e |-> -FB]
FLogSum(f, k, lx) == RoundDy(f, IF k = 0 THEN lx ELSE DyAdd(FLogK(k), lx))
\* ln(x) = 2 * z * (1 + z^2/3 + z^4/5 + ...) for z = zq / 2^g
FLogSeries(f, lo, k, g, zq) ==
    FLogSum(f, k, [s |-> IF lo THEN 0 ELSE 1,
                   m |-> NMul(zq, LogHorner(FxSquare(NShr(zq, g - FB)), 15, <<>>)),
                   e |-> 1 - g - FB])
FLogZ(f, lo, k, num, den, g) == FLogSeries(f, lo, k, g, NDivMod(NShl(num, g), den).q)
\* z = (x - 1) / (x + 1) = num / den, negative when x < 1
FLogRatio(f, lo, k, num, den) ==
    IF num = <<>> THEN RoundDy(f, FLogK(k))
    ELSE FLogZ(f, lo, k, num, den, FB + NBitLen(den) - NBitLen(num))
FLogFrac(f, lo, k, m, pw) ==
    FLogRatio(f, lo, k, IF lo THEN NSub(m, pw) ELSE NSub(pw, m), NAdd(m, pw))
\* a = 2^k * x with sqrt(1/2) <= x < sqrt(2): lo when the leading bits of
\* a.m are below sqrt(1/2), and then x = a.m / 2^(len - 1), else a.m / 2^len
FLogSplit(f, a, len, lo) ==
    FLogFrac(f, lo, IF lo THEN Top(a) - 1 ELSE Top(a), a.m,
             NShl(<<1>>, IF lo THEN len - 1 ELSE len))
FLogNorm(f, a, len) == FLogSplit(f, a, len, NToInt(NShr(NShl(a.m, LB), len)) < 23170)
FLog(f, a) ==
    IF a.k = "nan" THEN NaN
    ELSE IF a.k = "fin" /\ a.m = <<>> THEN Inf(1)
    ELSE IF a.s = 1 THEN NaN
    ELSE IF a.k = "inf" THEN a
    ELSE FLogNorm(f, a, NBitLen(a.m))

(***************************************************************************)
(* The numeric core of the notebooks.  A parameter value is kept in        *)
(* hundredths (300 is 3.0), the resolution of the sliders (step=0.01).     *)
(***************************************************************************)
\* the Python float written h/100
PyFloat(h) == FromRatio(F64, h, 100)
\* torch.tensor(v) of a Python float: a 0-dim float32 tensor
tensor(v) == Cast(F32, v)

\* torch.pi = 3.141592653589793
pi == [k |-> "fin", s |-> 0, m |-> <<1443, 21777, 4349, 25>>, e |-> -48]
\* math.log(0.5) = -0.6931471805599453
loghalf == [k |-> "fin", s |-> 1, m |-> <<14831, 32244, 14603, 177>>, e |-> -53]
\* the Python float 1e-50, the floor of the clamp in value_fn
clamp_min == [k |-> "fin", s |-> 0, m |-> <<14367, 5545, 14825, 239>>, e |-> -219]

\* dtype of x_range in each notebook
dtype(nb) == IF nb = "NonSaturatingGAN" THEN F32 ELSE F64

\* defaults of js_redraw_rule and nonsaturating_redraw_rule, in hundredths
true_mean == 300
true_variance == 50
default_gen_mean == 0
default_gen_variance == 100

\* torch.arange(-3, 6, 0.1): 90 points, the i-th is -3 + 0.1 * i computed in
\* double and stored in the dtype
x_range_len == 90
x_range(dt, i) ==
    Cast(dt, FAdd(F64, FromInt(-3), FMul(F64, FromRatio(F64, 1, 10), FromInt(i))))

\* exp(-(x - mean) ** 2 / variance) / sqrt(2 * pi * variance) at one point x
\* of dtype dt; mean and variance are 0-dim float32 tensors, so the square
\* root is float32 and the rest is computed in dt
gaussian_model(dt, x, mean, variance) ==
    FDiv(dt, FExp(dt, FDiv(dt, FNeg(FSquare(dt, FSub(dt, x, mean))), variance)),
             FSqrt(F32, FMul(F32, Cast(F32, FMul(F64, FromInt(2), pi)), variance)))

\* the closure lambda x: gaussian_model(x, tensor(mean), tensor(variance))
make_gaussian_model(mean, variance) ==
    [mean |-> tensor(PyFloat(mean)), variance |-> tensor(PyFloat(variance))]
\* model(x)
Density(model, dt, x) == gaussian_model(dt, x, model.mean, model.variance)

\* variants of discriminator with a slip in the denominator
discriminator_difference(dt, pt, pg) == FDiv(dt, pt, FSub(dt, pt, pg))
discriminator_odds(dt, pt, pg) == FDiv(dt, pt, pg)
\* p_true(x) / (p_true(x) + p_gen(x)); pt and pg are p_true(x) and p_gen(x)
discriminator(dt, pt, pg) == FDiv(dt, pt, FAdd(dt, pt, pg))

\* value_fn of OneDimGaussianGAN (the second definition, which replaces the
\* first): the rule is compared with 'js' only
value_of(pt, pg, d, constant) ==
    FAdd(F64,
         FMul(F64, pt, FSub(F64, FLog(F64, d), constant)),
         FMul(F64, pg, FSub(F64, FLog(F64, Clamp(FSub(F64, FromInt(1), d), clamp_min)),
                             constant)))
\* variants of value_fn: the constant added instead of subtracted; the
\* constant 2 * log(0.5) subtracted once from the sum; the constant left out
\* for rule 'v' only; no clamp and no rule (the first definition of the
\* notebook); clamp(max=1e-50) for clamp(min=1e-50)
value_fn_added_constant(pt, pg, rule) ==
    value_of(pt, pg, discriminator(F64, pt, pg),
             IF rule = "js" THEN FNeg(loghalf) ELSE Zero(0))
value_fn_constant_offset(pt, pg, rule) ==
    FSub(F64, value_of(pt, pg, discriminator(F64, pt, pg), Zero(0)),
         IF rule = "js" THEN FMul(F64, FromInt(2), loghalf) ELSE Zero(0))
value_fn_only_v_plain(pt, pg, rule) ==
    value_of(pt, pg, discriminator(F64, pt, pg), IF rule = "v" THEN Zero(0) ELSE loghalf)
value_unclamped(pt, pg, d) ==
    FAdd(F64, FMul(F64, pt, FLog(F64, d)),
              FMul(F64, pg, FLog(F64, FSub(F64, FromInt(1), d))))
value_fn_unclamped(pt, pg, rule) == value_unclamped(pt, pg, discriminator(F64, pt, pg))
value_clamp_max(pt, pg, d, lim) ==
    FAdd(F64, FMul(F64, pt, FLog(F64, d)),
              FMul(F64, pg, FLog(F64, IF FLt(lim, FSub(F64, FromInt(1), d)) THEN lim
                                      ELSE FSub(F64, FromInt(1), d))))
value_fn_clamp_max(pt, pg, rule) ==
    value_clamp_max(pt, pg, discriminator(F64, pt, pg), clamp_min)
value_fn(pt, pg, rule) ==
    value_of(pt, pg, discriminator(F64, pt, pg), IF rule = "js" THEN loghalf ELSE Zero(0))

\* value_fn of NonSaturatingGAN: it has no rule parameter
\* variant: the saturating generator loss p_gen * log(1 - d)
value_fn_saturating(pt, pg) ==
    FMul(F32, pg, FLog(F32, FSub(F32, FromInt(1), discriminator(F32, pt, pg))))
value_fn_nonsaturating(pt, pg) == FMul(F32, pg, FLog(F32, discriminator(F32, pt, pg)))

\* the rules a caller can ask value_fn of each notebook for
Rules(nb) ==
    IF nb = "NonSaturatingGAN" THEN {"nonsaturating"}
    ELSE {"v", "js", "non-saturating"}

\* what one redraw computes at the i-th point of x_range: the three curves
\* of the left axis and the value curve for each rule in rules
CurvesOf(nb, x, pt, pg, rules) ==
    [x     |-> x,
     true  |-> pt,
     gen   |-> pg,
     disc  |-> discriminator(dtype(nb), pt, pg),
     value |-> [r \in rules |->
                   IF nb = "NonSaturatingGAN" THEN value_fn_nonsaturating(pt, pg)
                   ELSE value_fn(pt, pg, r)]]
CurvesAt(nb, x, true_model, gen_model, rules) ==
    CurvesOf(nb, x, Density(true_model, dtype(nb), x), Density(gen_model, dtype(nb), x),
             rules)
Curves(nb, gen_mean_, gen_variance_, i, rules) ==
    CurvesAt(nb, x_range(dtype(nb), i),
             make_gaussian_model(true_mean, true_variance),
             make_gaussian_model(gen_mean_, gen_variance_), rules)

(***************************************************************************)
(* The widgets.  demo is the cell that is live: "minimax" is the single    *)
(* plot with its four controls, "paired" the plot and plot_js that share   *)
(* the cells gen_mean and gen_variance, "nonsaturating" the plot of        *)
(* NonSaturatingGAN.  shown is what each plot displays: the closure        *)
(* gen_model of its last redraw and its curves at the probed points.       *)
(***************************************************************************)
VARIABLES demo, gen_mean, gen_variance, shown, idx, point, total

vars == <<demo, gen_mean, gen_variance, shown, idx, point, total>>

Demos == {"minimax", "paired", "nonsaturating"}
Notebook(dm) == IF dm = "nonsaturating" THEN "NonSaturatingGAN" ELSE "OneDimGaussianGAN"
Plots(dm) == IF dm = "paired" THEN {"plot", "plot_js"} ELSE {"plot"}
\* the rule each PlotWidget passes to its redraw rule
PlotRule(dm, p) ==
    IF dm = "nonsaturating" THEN "nonsaturating"
    ELSE IF p = "plot_js" THEN "js" ELSE "v"

\* Range(min=-5, max=5) and Range(min=0.1, max=1.9), in hundredths
mean_min == -500
mean_max == 500
var_min == 10
var_max == 190

\* the slider positions and the numbers typed into the boxes that are tried
MeanStops == {-500, 0, 300, 500}
VarStops == {10, 50, 100, 190}
MeanTyped == {700}
VarTyped == {-100, 0, 250}

\* the points of x_range whose displayed values are kept in shown
NumProbes == 1
ProbeOrder == <<60, 89, 0, 30>>
Probes == {ProbeOrder[j] : j \in 1..Min(NumProbes, Len(ProbeOrder))}

\* js_redraw_rule / nonsaturating_redraw_rule of one plot
Displayed(c, r) == [gen |-> c.gen, true |-> c.true, disc |-> c.disc, value |-> c.value[r]]
\* variant: the redraw reads the cells as they were before the write
redraw_rule_before_write(dm, p, gm, gv) ==
    [gen_model |-> make_gaussian_model(gen_mean, gen_variance),
     curve     |-> [i \in Probes |->
                       Displayed(Curves(Notebook(dm), gen_mean, gen_variance, i,
                                        {PlotRule(dm, p)}),
                                 PlotRule(dm, p))]]
redraw_rule(dm, p, gm, gv) ==
    [gen_model |-> make_gaussian_model(gm, gv),
     curve     |-> [i \in Probes |->
                       Displayed(Curves(Notebook(dm), gm, gv, i, {PlotRule(dm, p)}),
                                 PlotRule(dm, p))]]

\* a write to a cell redraws every plot bound to it
Redraw(dm, gm, gv) == [p \in Plots(dm) |-> redraw_rule(dm, p, gm, gv)]

NoPoint ==
    [x |-> Zero(0), true |-> Zero(0), gen |-> Zero(0), disc |-> Zero(0), value |-> <<>>]
NoTotal == [true |-> Zero(0), gen |-> Zero(0), value |-> <<>>]

Init ==
    /\ demo \in Demos
    /\ gen_mean = default_gen_mean
    /\ gen_variance = default_gen_variance
    /\ shown = Redraw(demo, default_gen_mean, default_gen_variance)
    /\ idx = 0
    /\ point = NoPoint
    /\ total = NoTotal

WriteMean(v) ==
    /\ gen_mean' = v
    /\ shown' = Redraw(demo, v, gen_variance)
    /\ UNCHANGED <<demo, gen_variance, idx, point, total>>

WriteVariance(v) ==
    /\ gen_variance' = v
    /\ shown' = Redraw(demo, gen_mean, v)
    /\ UNCHANGED <<demo, gen_mean, idx, point, total>>

\* Range(value=plot.prop('gen_mean'), min=-5, max=5, step=0.01)
mean_slider == \E v \in MeanStops : mean_min <= v /\ v <= mean_max /\ WriteMean(v)
\* Numberbox(value=plot.prop('gen_mean'))
mean_input == \E v \in MeanTyped : WriteMean(v)
\* Range(value=plot.prop('gen_variance'), min=0.1, max=1.9, step=0.01)
var_slider == \E v \in VarStops : var_min <= v /\ v <= var_max /\ WriteVariance(v)
\* Numberbox(value=plot.prop('gen_variance'))
var_input == \E v \in VarTyped : WriteVariance(v)

Next == mean_slider \/ mean_input \/ var_slider \/ var_input

Spec == Init /\ [][Next]_vars

(***************************************************************************)
(* The evaluation over the whole grid.  For fixed parameters the points of *)
(* x_range are evaluated in order; point is the evaluation of the last     *)
(* point and total the sums of the curves over the points so far.          *)
(***************************************************************************)
NumScenarios == 6
ScenarioOrder ==
    <<[mean |-> 0, variance |-> 100],
      [mean |-> 300, variance |-> 50],
      [mean |-> -500, variance |-> 10],
      [mean |-> 500, variance |-> 190],
      [mean |-> 250, variance |-> 50],
      [mean |-> 300, variance |-> 190],
      [mean |-> -500, variance |-> 190],
      [mean |-> 500, variance |-> 10]>>
Scenarios == {ScenarioOrder[j] : j \in 1..Min(NumScenarios, Len(ScenarioOrder))}

InitSweep ==
    /\ demo \in {"minimax", "nonsaturating"}
    /\ \E sc \in Scenarios : gen_mean = sc.mean /\ gen_variance = sc.variance
    /\ shown = <<>>
    /\ idx = 0
    /\ point = NoPoint
    /\ total = [true  |-> Zero(0), gen |-> Zero(0),
                value |-> [r \in Rules(Notebook(demo)) |-> Zero(0)]]

EvaluatePoint ==
    /\ idx < x_range_len
    /\ point' = Curves(Notebook(demo), gen_mean, gen_variance, idx, Rules(Notebook(demo)))
    /\ total' = [true  |-> FAdd(F64, total.true, point'.true),
                 gen   |-> FAdd(F64, total.gen, point'.gen),
                 value |-> [r \in Rules(Notebook(demo)) |->
                               FAdd(F64, total.value[r], point'.value[r])]]
    /\ idx' = idx + 1
    /\ UNCHANGED <<demo, gen_mean, gen_variance, shown>>

NextSweep == EvaluatePoint

SpecSweep == InitSweep /\ [][NextSweep]_vars

(***************************************************************************)
(* Properties.                                                             *)
(***************************************************************************)
One == FromInt(1)
Half == FromRatio(F64, 1, 2)
FAbs(a) == IF a.k = "nan" THEN a ELSE [a EXCEPT !.s = 0]
\* |a - b| <= tol
Close(a, b, tol) == FLe(FAbs(FSub(F64, a, b)), tol)

OneDim == Notebook(demo) = "OneDimGaussianGAN"
NonSat == Notebook(demo) = "NonSaturatingGAN"
Evaluated == idx > 0
SweepDone == idx = x_range_len
GenIsTrue == gen_mean = true_mean /\ gen_variance = true_variance
GenIsDefault == gen_mean = default_gen_mean /\ gen_variance = default_gen_variance

\* the sum of a value curve over the grid times the grid step 0.1
Area(r) == FMul(F64, total.value[r], FromRatio(F64, 1, 10))
NegLog4 == FNeg(FLog(F64, FromInt(4)))

\* rounding tolerances: 2^-40 for one point, 2^-30 for a sum over the grid
TolPoint == Dy(0, <<1>>, -40)
TolSum == Dy(0, <<1>>, -30)
\* tolerance of a Riemann sum over the grid against the exact integral
TolGrid == FromRatio(F64, 5, 100)

\* C1 (as claimed): at every evaluated point the discriminator is strictly
\* between 0 and 1 and its denominator is not zero.
C1_StrictlyInside ==
    Evaluated =>
        /\ FLt(Zero(0), point.disc)
        /\ FLt(point.disc, One)
        /\ ~IsZero(FAdd(dtype(Notebook(demo)), point.true, point.gen))

\* C1 (amended): at every evaluated point the discriminator is above 0 and
\* at most 1, and its denominator is not zero.
C1_PositiveAtMostOne ==
    Evaluated =>
        /\ FLt(Zero(0), point.disc)
        /\ FLe(point.disc, One)
        /\ ~IsZero(FAdd(dtype(Notebook(demo)), point.true, point.gen))

\* the discriminator has rounded to exactly 1 at a point of the float32 grid
C1_Witness == Evaluated /\ NonSat /\ point.disc = One /\ ~IsZero(point.gen)

\* C2: the variance tensor inside the gen_model of every plot's last redraw
\* is positive.
C2_VariancePositive ==
    \A p \in DOMAIN shown : FLt(Zero(0), shown[p].gen_model.variance)

\* C3: when the generator parameters equal the true parameters the
\* discriminator is 0.5 at every evaluated point.
C3_HalfWhenEqual == (Evaluated /\ GenIsTrue) => point.disc = Half

C3_Witness == Evaluated /\ GenIsTrue /\ point.disc = Half /\ ~IsZero(point.true)

\* the right-hand side of C4: value 'v' minus (P_true + P_gen) * log(0.5)
ShiftedMinimax ==
    FSub(F64, point.value["v"],
         FMul(F64, FAdd(F64, point.true, point.gen), loghalf))

\* C4 (as claimed): at every evaluated point the 'js' value equals the 'v'
\* value minus (P_true + P_gen) * log(0.5).
C4_ExactlyShifted == (Evaluated /\ OneDim) => point.value["js"] = ShiftedMinimax

\* C4 (amended): at every evaluated point the 'js' value and the 'v' value
\* minus (P_true + P_gen) * log(0.5) differ by at most 2^-40.
C4_ShiftedWithinRounding ==
    (Evaluated /\ OneDim) => Close(point.value["js"], ShiftedMinimax, TolPoint)

\* a point where the two sides differ in the last place
C4_Witness ==
    /\ Evaluated /\ OneDim
    /\ point.value["js"] # ShiftedMinimax
    /\ Close(point.value["js"], ShiftedMinimax, TolPoint)

NonSaturatingFormula ==
    FMul(dtype(Notebook(demo)), point.gen, FLog(dtype(Notebook(demo)), point.disc))
\* P_true * (log(D) - c) + P_gen * (log(max(1 - D, 1e-50)) - c)
CrossEntropyFormula(c) ==
    FAdd(F64,
         FMul(F64, point.true, FSub(F64, FLog(F64, point.disc), c)),
         FMul(F64, point.gen,
              FSub(F64, FLog(F64, Clamp(FSub(F64, One, point.disc), clamp_min)), c)))

\* C6 (as claimed): value_fn asked for the non-saturating rule returns
\* P_gen * log(D).
C6_ModeSelectsNonSaturating ==
    (Evaluated /\ OneDim) => point.value["non-saturating"] = NonSaturatingFormula

\* C6 (amended): value_fn of OneDimGaussianGAN returns the JS formula for
\* rule 'js' and the minimax formula for every other rule, 'non-saturating'
\* included.
C6_RuleSelectsJsOrMinimax ==
    (Evaluated /\ OneDim) =>
        /\ point.value["js"] = CrossEntropyFormula(loghalf)
        /\ point.value["v"] = CrossEntropyFormula(Zero(0))
        /\ point.value["non-saturating"] = CrossEntropyFormula(Zero(0))

\* asked for non-saturating, value_fn gave the minimax value, which differs
C6_Witness ==
    /\ Evaluated /\ OneDim
    /\ point.value["non-saturating"] = point.value["v"]
    /\ point.value["non-saturating"] # NonSaturatingFormula

\* C7: in NonSaturatingGAN the value at every evaluated point is
\* P_gen * log(D) of the displayed generator density and discriminator.
C7_NonSaturatingValue ==
    (Evaluated /\ NonSat) => point.value["nonsaturating"] = NonSaturatingFormula

C7_Witness ==
    /\ Evaluated /\ NonSat
    /\ FLt(point.value["nonsaturating"], Zero(0))
    /\ FLt(Zero(0), point.true)

\* C8: when the generator parameters equal the true parameters the area
\* under the minimax value curve is -log(4), within the grid's tolerance.
C8_AreaIsMinusLog4 ==
    (SweepDone /\ OneDim /\ GenIsTrue) => Close(Area("v"), NegLog4, TolGrid)

\* C9 (as claimed): for the default parameters the area under the minimax
\* value curve is below -log(4).
C9_AreaBelowMinusLog4 ==
    (SweepDone /\ OneDim /\ GenIsDefault) => FLt(Area("v"), NegLog4)

\* C9 (amended): for the default parameters the area under the minimax
\* value curve is above -log(4), over the points evaluated so far and so
\* over the whole grid.
C9_AreaAboveMinusLog4 ==
    (Evaluated /\ OneDim /\ GenIsDefault) => FLt(NegLog4, Area("v"))

C9_Witness == SweepDone /\ OneDim /\ GenIsDefault /\ FLt(Area("v"), Zero(0))

\* C10: every value computed at an evaluated point is finite, also where
\* the discriminator has rounded to exactly 1.
C10_ValuesFinite ==
    Evaluated => \A r \in DOMAIN point.value : IsFinite(point.value[r])

\* the double discriminator is exactly 1, 1 - D is 0, and the value is finite
C10_Witness ==
    /\ Evaluated /\ OneDim
    /\ point.disc = One
    /\ IsFinite(point.value["v"]) /\ IsFinite(point.value["js"])

\* what plot p shows, evaluated afresh from the current cells gen_mean and
\* gen_variance and the true parameters (3.0, 0.5)
FreshCurve(p, i) ==
    Displayed(Curves(Notebook(demo), gen_mean, gen_variance, i, {PlotRule(demo, p)}),
              PlotRule(demo, p))

====
